---------------------------- MODULE Spec2Model ----------------------------
(***************************************************************************)
(* Pattern structures of paspailleur: AbstractPS (abstract_ps.py) and its  *)
(* interval instantiation IntervalPS (interval_ps.py).                     *)
(*                                                                         *)
(* An IntervalPS object has no fields and every method is a pure function  *)
(* of its arguments, so the state of the model is one call: the method     *)
(* called (op), its arguments (a, b, data) and what it returned or raised  *)
(* (ret).  A behaviour is one call made on a fresh object.                 *)
(*                                                                         *)
(* Representation.  An interval pattern (lower, upper) is the tuple        *)
(* <<lower, upper>>; the bottom pattern None is the empty tuple <<>>.      *)
(* Bounds are floats in the code; only their order is used, and they are   *)
(* integers 0..MaxVal here.  A frozenbitarray is a sequence of BOOLEAN.    *)
(* Python indexes from 0, TLA+ sequences from 1: row i of the code is      *)
(* data[i+1] here, and extent yields the indices shifted by one.           *)
(* A call returns [kind |-> "ok", ...] or raises [kind |-> <exception>].   *)
(***************************************************************************)
EXTENDS Integers, Sequences, FiniteSets

VARIABLES op, a, b, data, ret

vars == <<op, a, b, data, ret>>

\* Largest bound value of an interval (bounds range over 0..MaxVal).
MaxVal == 2

\* Largest number of rows of a dataset.
MaxRows == 3

-----------------------------------------------------------------------------
(* Inputs *)

\* IntervalPS.bottom = None
bottom == <<>>

Values == 0..MaxVal

\* Well-formed intervals: lower <= upper.
Intervals == {p \in Values \X Values : p[1] <= p[2]}

\* IntervalPS.PatternType = Optional[tuple[float, float]]
Patterns == {bottom} \cup Intervals

\* list[PatternType] of well-formed intervals, the empty list included.
Datasets == UNION {[1..n -> Intervals] : n \in 0..MaxRows}

-----------------------------------------------------------------------------
(* Python built-ins the methods use *)

\* min(x, y): y only when y < x
min(x, y) == IF y < x THEN y ELSE x

\* max(x, y): y only when y > x
max(x, y) == IF y > x THEN y ELSE x

\* sorted(S) of a set of numbers: the ascending list of its elements
RECURSIVE sorted(_)
sorted(S) ==
    IF S = {} THEN <<>>
    ELSE LET m == CHOOSE x \in S : \A y \in S : x <= y
         IN  <<m>> \o sorted(S \ {m})

\* s[::-1]
reversed_identity(s) == s

reversed(s) == [k \in 1..Len(s) |-> s[Len(s) + 1 - k]]

\* flag.itersearch(v): the positions of flag holding v
itersearch_inverted(flag, v) == {i \in 1..Len(flag) : flag[i] # v}

itersearch(flag, v) == {i \in 1..Len(flag) : flag[i] = v}

-----------------------------------------------------------------------------
(* IntervalPS *)

\* IntervalPS.join_patterns
join_patterns_keeps_left(x, y) ==
    IF x = bottom THEN y
    ELSE IF y = bottom THEN x
    ELSE <<x[1], max(x[2], y[2])>>

join_patterns(x, y) ==
    IF x = bottom THEN y
    ELSE IF y = bottom THEN x
    ELSE <<min(x[1], y[1]), max(x[2], y[2])>>

\* IntervalPS.is_less_precise
is_less_precise_bottom_first(x, y) ==
    IF x = bottom THEN TRUE
    ELSE IF y = bottom THEN FALSE
    ELSE x[1] <= y[1] /\ y[1] <= y[2] /\ y[2] <= x[2]

is_less_precise_strict(x, y) ==
    IF y = bottom THEN TRUE
    ELSE IF x = bottom THEN FALSE
    ELSE x[1] < y[1] /\ y[1] <= y[2] /\ y[2] <= x[2]

is_less_precise(x, y) ==
    IF y = bottom THEN TRUE
    ELSE IF x = bottom THEN FALSE
    ELSE x[1] <= y[1] /\ y[1] <= y[2] /\ y[2] <= x[2]

\* AbstractPS.is_less_precise, the default IntervalPS overrides
AbstractPS_is_less_precise(x, y) == join_patterns(x, y) = x

\* fbarray((lb <= x for x, _ in data))
lb_extent_strict(lb, d) == [i \in 1..Len(d) |-> lb < d[i][1]]

lb_extent(lb, d) == [i \in 1..Len(d) |-> lb <= d[i][1]]

\* fbarray((x <= ub for _, x in data))
ub_extent_strict(ub, d) == [i \in 1..Len(d) |-> d[i][2] < ub]

ub_extent(ub, d) == [i \in 1..Len(d) |-> d[i][2] <= ub]

\* What unpacking a list of the wrong length into two names raises.
\* explicit: whether a raise statement of the repository raised it.
UnpackError ==
    [kind |-> "ValueError",
     message |-> "not enough values to unpack (expected 2, got 0)",
     explicit |-> FALSE]

\* IntervalPS.iter_bin_attributes, as the list of the pairs it yields.
\* zip(*data) of an empty list is empty, and unpacking the empty list of
\* sorted columns into (lower_bounds, upper_bounds) raises ValueError.
iter_bin_attributes(d) ==
    IF Len(d) = 0 THEN UnpackError
    ELSE
    LET all_lower == sorted({d[i][1] : i \in 1..Len(d)})
        all_upper == sorted({d[i][2] : i \in 1..Len(d)})
        min_ == all_lower[1]
        max_ == all_upper[Len(all_upper)]
        lower_bounds == Tail(all_lower)
        upper_bounds == SubSeq(all_upper, 1, Len(all_upper) - 1)
        upper_desc == reversed(upper_bounds)
        first == << <<min_, max_>>, [i \in 1..Len(d) |-> TRUE] >>
        lowers == [k \in 1..Len(lower_bounds) |->
                     << <<lower_bounds[k], max_>>, lb_extent(lower_bounds[k], d) >>]
        uppers == [k \in 1..Len(upper_desc) |->
                     << <<min_, upper_desc[k]>>, ub_extent(upper_desc[k], d) >>]
        last == << bottom, [i \in 1..Len(d) |-> FALSE] >>
    IN  [kind |-> "ok", value |-> <<first>> \o lowers \o uppers \o <<last>>]

\* IntervalPS.n_bin_attributes: the second set is built from the rows
\* themselves ({ub for ub in data}), not from their upper bounds.
n_bin_attributes(d) ==
    [kind |-> "ok",
     value |-> Cardinality({d[i][1] : i \in 1..Len(d)})
               + Cardinality({d[i] : i \in 1..Len(d)})]

-----------------------------------------------------------------------------
(* AbstractPS *)

\* AbstractPS.n_bin_attributes: sum(1 for _ in self.iter_bin_attributes(data))
AbstractPS_n_bin_attributes(d) ==
    LET it == iter_bin_attributes(d)
    IN  IF it.kind # "ok" THEN it
        ELSE [kind |-> "ok", value |-> Len(it.value)]

\* AbstractPS.extent: the indices of the rows the pattern is less precise than
extent(pattern, d) ==
    SelectSeq([i \in 1..Len(d) |-> i],
              LAMBDA i : is_less_precise(pattern, d[i]))

\* AbstractPS.intent: the loop over the rows, from intent = None
RECURSIVE intent_loop(_, _)
intent_loop(acc, rest) ==
    IF rest = <<>> THEN acc
    ELSE IF acc = bottom THEN intent_loop(Head(rest), Tail(rest))
    ELSE intent_loop(join_patterns(acc, Head(rest)), Tail(rest))

intent_last_row(d) == IF d = <<>> THEN bottom ELSE d[Len(d)]

intent(d) == intent_loop(bottom, d)

\* AbstractPS.binarize
binarize_inverted(d) ==
    LET it == iter_bin_attributes(d)
    IN  IF it.kind # "ok" THEN it
        ELSE IF Len(it.value) = 0 THEN UnpackError
        ELSE
        LET patterns == [j \in 1..Len(it.value) |-> it.value[j][1]]
            flags == [j \in 1..Len(it.value) |-> it.value[j][2]]
            n_rows == Len(flags[1])
            n_cols == Len(flags)
        IN  [kind |-> "ok",
             patterns |-> patterns,
             itemsets |-> [i \in 1..n_rows |->
                             [j \in 1..n_cols |-> i \in itersearch_inverted(flags[j], TRUE)]]]

binarize(d) ==
    LET it == iter_bin_attributes(d)
    IN  IF it.kind # "ok" THEN it
        ELSE IF Len(it.value) = 0 THEN UnpackError
        ELSE
        LET patterns == [j \in 1..Len(it.value) |-> it.value[j][1]]
            flags == [j \in 1..Len(it.value) |-> it.value[j][2]]
            n_rows == Len(flags[1])
            n_cols == Len(flags)
        IN  [kind |-> "ok",
             patterns |-> patterns,
             itemsets |-> [i \in 1..n_rows |->
                             [j \in 1..n_cols |-> i \in itersearch(flags[j], TRUE)]]]

-----------------------------------------------------------------------------
(* The calls *)

Init ==
    /\ op = "idle"
    /\ a = bottom
    /\ b = bottom
    /\ data = <<>>
    /\ ret = [kind |-> "none"]

JoinPatterns ==
    /\ op = "idle"
    /\ \E x \in Patterns, y \in Patterns :
         /\ a' = x
         /\ b' = y
         /\ ret' = [kind |-> "ok", value |-> join_patterns(x, y)]
    /\ op' = "join_patterns"
    /\ UNCHANGED data

IsLessPrecise ==
    /\ op = "idle"
    /\ \E x \in Patterns, y \in Patterns :
         /\ a' = x
         /\ b' = y
         /\ ret' = [kind |-> "ok", value |-> is_less_precise(x, y)]
    /\ op' = "is_less_precise"
    /\ UNCHANGED data

IterBinAttributes ==
    /\ op = "idle"
    /\ \E d \in Datasets :
         /\ data' = d
         /\ ret' = iter_bin_attributes(d)
    /\ op' = "iter_bin_attributes"
    /\ UNCHANGED <<a, b>>

NBinAttributes ==
    /\ op = "idle"
    /\ \E d \in Datasets :
         /\ data' = d
         /\ ret' = n_bin_attributes(d)
    /\ op' = "n_bin_attributes"
    /\ UNCHANGED <<a, b>>

Binarize ==
    /\ op = "idle"
    /\ \E d \in Datasets :
         /\ data' = d
         /\ ret' = binarize(d)
    /\ op' = "binarize"
    /\ UNCHANGED <<a, b>>

Intent ==
    /\ op = "idle"
    /\ \E d \in Datasets :
         /\ data' = d
         /\ ret' = [kind |-> "ok", value |-> intent(d)]
    /\ op' = "intent"
    /\ UNCHANGED <<a, b>>

Extent ==
    /\ op = "idle"
    /\ \E x \in Patterns, d \in Datasets :
         /\ a' = x
         /\ data' = d
         /\ ret' = [kind |-> "ok", value |-> extent(x, d)]
    /\ op' = "extent"
    /\ UNCHANGED b

Next ==
    \/ JoinPatterns
    \/ IsLessPrecise
    \/ IterBinAttributes
    \/ NBinAttributes
    \/ Binarize
    \/ Intent
    \/ Extent

Spec == Init /\ [][Next]_vars

-----------------------------------------------------------------------------
(* Properties *)

\* The patterns[j] of a binarize result r with itemsets[i][j] true, in
\* column order.
RowPatterns(r, i) ==
    LET cols == SelectSeq([j \in 1..Len(r.patterns) |-> j],
                          LAMBDA j : r.itemsets[i][j])
    IN  [k \in 1..Len(cols) |-> r.patterns[cols[k]]]

\* The largest and the smallest number of a non-empty set.
Greatest(S) == CHOOSE x \in S : \A y \in S : y <= x

Least(S) == CHOOSE x \in S : \A y \in S : x <= y

\* A bit-vector with a true and a false bit.
Mixed(e) == (\E i \in 1..Len(e) : e[i]) /\ (\E i \in 1..Len(e) : ~e[i])

\* C1: on a non-empty dataset of well-formed intervals,
\* IntervalPS.n_bin_attributes(data) is the number of pairs
\* iter_bin_attributes(data) yields, rows sharing a bound included.
C1_CountConsistency ==
    (op = "n_bin_attributes" /\ Len(data) > 0) =>
        ret.value = AbstractPS_n_bin_attributes(data).value

\* C2, as claimed: for every row i of a binarized non-empty dataset, joining
\* the patterns[j] with itemsets[i][j] true gives data[i].
C2_RoundTripByJoin ==
    (op = "binarize" /\ ret.kind = "ok") =>
        \A i \in 1..Len(data) : intent(RowPatterns(ret, i)) = data[i]

\* C2, amended: for every row i of a binarized non-empty dataset, joining the
\* patterns[j] with itemsets[i][j] true gives the first attribute
\* (global_min, global_max), which is intent(data); data[i] is the
\* intersection of those patterns: their greatest lower bound and their
\* least upper bound.
C2_RoundTripByIntersection ==
    (op = "binarize" /\ ret.kind = "ok") =>
        \A i \in 1..Len(data) :
            LET sel == RowPatterns(ret, i)
            IN  /\ Len(sel) > 0
                /\ \A k \in 1..Len(sel) : sel[k] # bottom
                /\ intent(sel) = ret.patterns[1]
                /\ intent(sel) = intent(data)
                /\ data[i] = << Greatest({sel[k][1] : k \in 1..Len(sel)}),
                                Least({sel[k][2] : k \in 1..Len(sel)}) >>

\* C2's case: a binarized row that is not the whole range and satisfies the
\* first attribute, a lower-bound attribute and an upper-bound attribute.
C2_Witness ==
    /\ op = "binarize"
    /\ ret.kind = "ok"
    /\ \E i \in 1..Len(data) :
         /\ data[i] # ret.patterns[1]
         /\ \E j \in 2..Len(ret.patterns) :
              /\ ret.itemsets[i][j]
              /\ ret.patterns[j][1] # ret.patterns[1][1]
         /\ \E j \in 2..Len(ret.patterns) :
              /\ ret.itemsets[i][j]
              /\ ret.patterns[j][2] # ret.patterns[1][2]

\* C3, as claimed: every two consecutive patterns yielded by
\* iter_bin_attributes, the first and the last attribute aside, are strictly
\* ordered: the later one is strictly more precise.
C3_MonotoneWalk ==
    (op = "iter_bin_attributes" /\ ret.kind = "ok") =>
        \A k \in 2..(Len(ret.value) - 2) :
            LET p == ret.value[k][1]
                q == ret.value[k + 1][1]
            IN  is_less_precise(p, q) /\ ~is_less_precise(q, p)

\* C3, amended: two consecutive patterns that are both lower-bound
\* attributes (they share global_max) or both upper-bound attributes (they
\* share global_min) are strictly ordered, the later one strictly more
\* precise; the last lower-bound attribute and the first upper-bound
\* attribute are incomparable, is_less_precise being false both ways.
C3_MonotoneWithinBlocks ==
    (op = "iter_bin_attributes" /\ ret.kind = "ok") =>
        \A k \in 2..(Len(ret.value) - 2) :
            LET p == ret.value[k][1]
                q == ret.value[k + 1][1]
            IN  IF p[2] = q[2] \/ p[1] = q[1]
                THEN is_less_precise(p, q) /\ ~is_less_precise(q, p)
                ELSE ~is_less_precise(p, q) /\ ~is_less_precise(q, p)

\* C3's case: a walk with two lower-bound attributes followed by two
\* upper-bound attributes, so that each kind of consecutive pair occurs.
C3_Witness ==
    /\ op = "iter_bin_attributes"
    /\ ret.kind = "ok"
    /\ Len(ret.value) = 6
    /\ ret.value[2][1][2] = ret.value[3][1][2]
    /\ ret.value[4][1][1] = ret.value[5][1][1]
    /\ ret.value[3][1][1] # ret.value[4][1][1]

\* C4, as claimed: is_less_precise(a, b) is true exactly when a is bottom,
\* or both are intervals with a.lower <= b.lower <= b.upper <= a.upper.
C4_BottomLeastPrecise ==
    op = "is_less_precise" =>
        (ret.value <=>
            (\/ a = bottom
             \/ /\ b # bottom
                /\ a[1] <= b[1] /\ b[1] <= b[2] /\ b[2] <= a[2]))

\* C4, amended: is_less_precise(a, b) is true exactly when b is bottom, or
\* both are intervals with a.lower <= b.lower <= b.upper <= a.upper; so
\* is_less_precise(x, bottom) is true for every pattern x, and
\* is_less_precise(bottom, x) only for x = bottom.
C4_BottomMostPrecise ==
    op = "is_less_precise" =>
        (ret.value <=>
            (\/ b = bottom
             \/ /\ a # bottom
                /\ a[1] <= b[1] /\ b[1] <= b[2] /\ b[2] <= a[2]))

\* C4's case: an interval compared with bottom, which it is less precise
\* than.
C4_Witness ==
    /\ op = "is_less_precise"
    /\ a # bottom
    /\ b = bottom
    /\ ret.value

\* C5: binarize of an empty dataset fails with an error raised on purpose
\* for the empty input, not with a result nor with an incidental error.
C5_ExplicitEmptyError ==
    (op = "binarize" /\ Len(data) = 0) =>
        (ret.kind # "ok" /\ ret.explicit)

\* C6: binarize of a non-empty dataset returns the patterns in yield order
\* and one itemset per row, each as long as the patterns, with
\* itemsets[i][j] true exactly when bit i of the j-th extent is.
C6_BinarizeTransposes ==
    (op = "binarize" /\ Len(data) > 0) =>
        LET it == iter_bin_attributes(data).value
        IN  /\ ret.kind = "ok"
            /\ ret.patterns = [j \in 1..Len(it) |-> it[j][1]]
            /\ Len(ret.itemsets) = Len(data)
            /\ \A i \in 1..Len(data) :
                 /\ Len(ret.itemsets[i]) = Len(it)
                 /\ \A j \in 1..Len(it) : ret.itemsets[i][j] <=> it[j][2][i]

\* C6's case: a binarized dataset of several rows with a lower-bound or
\* upper-bound attribute some rows satisfy and some do not.
C6_Witness ==
    /\ op = "binarize"
    /\ ret.kind = "ok"
    /\ Len(data) >= 2
    /\ Len(ret.patterns) >= 4
    /\ \E i \in 1..Len(ret.itemsets) : Mixed(ret.itemsets[i])
    /\ \E i1 \in 1..Len(data), i2 \in 1..Len(data) :
         ret.itemsets[i1] # ret.itemsets[i2]

\* C7: join_patterns is idempotent, commutative and associative, and bottom
\* is its unit on both sides.
C7_Semilattice ==
    op = "join_patterns" =>
        /\ (a = b => ret.value = a)
        /\ ret.value = join_patterns(b, a)
        /\ \A c \in Patterns :
             join_patterns(ret.value, c) = join_patterns(a, join_patterns(b, c))
        /\ (b = bottom => ret.value = a)
        /\ (a = bottom => ret.value = b)

\* C7's case: the join of two intervals that is neither of them.
C7_Witness ==
    /\ op = "join_patterns"
    /\ a # bottom
    /\ b # bottom
    /\ ret.value # a
    /\ ret.value # b

\* C8: the intent of a non-empty list of intervals is less precise than
\* each of its rows, so its extent in the list is every index.
C8_IntentCoversRows ==
    (op = "intent" /\ Len(data) > 0) =>
        /\ \A i \in 1..Len(data) : is_less_precise(ret.value, data[i])
        /\ extent(ret.value, data) = [i \in 1..Len(data) |-> i]

\* C8's case: an intent of several rows that is none of the rows.
C8_Witness ==
    /\ op = "intent"
    /\ Len(data) >= 2
    /\ \A i \in 1..Len(data) : data[i] # ret.value

\* C9: every pair (p, e) iter_bin_attributes yields on a non-empty dataset
\* has an extent of len(data) bits whose true bits are exactly the rows p
\* is less precise than, the indices extent(p, data) returns.
C9_ExactExtents ==
    (op = "iter_bin_attributes" /\ Len(data) > 0) =>
        /\ ret.kind = "ok"
        /\ \A k \in 1..Len(ret.value) :
             LET p == ret.value[k][1]
                 e == ret.value[k][2]
                 ext == extent(p, data)
             IN  /\ Len(e) = Len(data)
                 /\ \A i \in 1..Len(data) : e[i] <=> is_less_precise(p, data[i])
                 /\ itersearch(e, TRUE) = {ext[n] : n \in 1..Len(ext)}

\* C9's case: a walk holding a lower-bound and an upper-bound attribute
\* whose extents are neither all rows nor none.
C9_Witness ==
    /\ op = "iter_bin_attributes"
    /\ ret.kind = "ok"
    /\ \E k \in 2..(Len(ret.value) - 1) :
         /\ ret.value[k][1][1] # ret.value[1][1][1]
         /\ Mixed(ret.value[k][2])
    /\ \E k \in 2..(Len(ret.value) - 1) :
         /\ ret.value[k][1][2] # ret.value[1][1][2]
         /\ Mixed(ret.value[k][2])

\* C10: IntervalPS.is_less_precise returns what the default
\* AbstractPS.is_less_precise, join_patterns(a, b) == a, returns.
C10_OverrideEquivalence ==
    op = "is_less_precise" =>
        (ret.value <=> AbstractPS_is_less_precise(a, b))

\* C10's case: two different intervals, the first less precise than the
\* second.
C10_Witness ==
    /\ op = "is_less_precise"
    /\ a # bottom
    /\ b # bottom
    /\ a # b
    /\ ret.value

=============================================================================
